---------------------------- MODULE Spec2Model ----------------------------
(***************************************************************************)
(* Console Book Tracer (src/main.cpp): the SQLite record store, the CSV    *)
(* bulk import, the ISBN codec and the two-source metadata lookup chain.   *)
(*                                                                         *)
(* Text is modelled as a sequence of one-character strings, so that the    *)
(* codec, the CSV parser and std::stoi work on characters as the code      *)
(* does.  Three specifications share the variables:                        *)
(*   Spec        the record store driven through its public operations     *)
(*   SpecIsbn    normalizeIsbn applied to raw inputs                       *)
(*   SpecLookup  lookupIsbn applied to responses of the two sources        *)
(***************************************************************************)
EXTENDS Integers, Sequences, FiniteSets, TLC

VARIABLES
    books,        \* table books: a set of rows, id is the primary key
    seq,          \* sqlite_sequence entry of books (AUTOINCREMENT high-water mark)
    settings,     \* table settings: a function from keys to text values
    usedIds,      \* history: every id a stored row has had after an operation
    last,         \* the last store operation: its name, arguments, result, injected faults
    isbnIn,       \* codec: the raw input string
    isbnOut,      \* codec: [done, value] of normalizeIsbn(isbnIn)
    g_useGoogleBooks, \* run-scoped flag "secondary source usable" (main.cpp:34)
    lk,           \* lookup: the last lookupIsbn call, its inputs, queries and outcome
    startup       \* main: its position (checks, menu, exit) and what the startup checks met

vars == <<books, seq, settings, usedIds, last, isbnIn, isbnOut, g_useGoogleBooks, lk, startup>>
storeVars == <<books, seq, settings, usedIds, last>>
isbnVars == <<isbnIn, isbnOut>>
lookupVars == <<g_useGoogleBooks, lk, startup>>

-----------------------------------------------------------------------------
(* Bounds of the model *)

\* ids are handed out up to this value (guards of the inserting operations)
MaxId == 2
\* storage faults injected into one operation
MaxFaults == 1
\* single-character edits applied to a sample ISBN to form a raw input
MaxEdits == 1

-----------------------------------------------------------------------------
(* Integers and text *)

INT_MAX == 2147483647
INT_MIN == -2147483647 - 1

Max2(a, b) == IF a >= b THEN a ELSE b
Min2(a, b) == IF a <= b THEN a ELSE b

\* std::max(0, x) and std::clamp(x, lo, hi)
StdClamp(x, lo, hi) == IF x < lo THEN lo ELSE IF hi < x THEN hi ELSE x

Digits == {"0", "1", "2", "3", "4", "5", "6", "7", "8", "9"}

\* c - '0' for the characters onlyDigitsX lets through ('X' is 88, '0' is 48)
CharMinusZero(c) ==
    CASE c = "0" -> 0 [] c = "1" -> 1 [] c = "2" -> 2 [] c = "3" -> 3
      [] c = "4" -> 4 [] c = "5" -> 5 [] c = "6" -> 6 [] c = "7" -> 7
      [] c = "8" -> 8 [] c = "9" -> 9 [] c = "X" -> 40

DigitChar(d) ==
    CASE d = 0 -> "0" [] d = 1 -> "1" [] d = 2 -> "2" [] d = 3 -> "3"
      [] d = 4 -> "4" [] d = 5 -> "5" [] d = 6 -> "6" [] d = 7 -> "7"
      [] d = 8 -> "8" [] d = 9 -> "9"

\* std::to_string(int)
RECURSIVE NatToStr(_)
NatToStr(n) == IF n < 10 THEN <<DigitChar(n)>>
               ELSE NatToStr(n \div 10) \o <<DigitChar(n % 10)>>
IntToStr(n) == IF n < 0 THEN <<"-">> \o NatToStr(-n) ELSE NatToStr(n)

\* std::stoi(s): skips leading blanks, takes an optional sign and the longest
\* run of digits; no digit is std::invalid_argument, a value outside int is
\* std::out_of_range.  The result is [ok, v]; ok = FALSE is the exception.
RECURSIVE SkipBlanks(_)
SkipBlanks(s) == IF s # <<>> /\ Head(s) = " " THEN SkipBlanks(Tail(s)) ELSE s
RECURSIVE DigitRun(_)
DigitRun(s) == IF s # <<>> /\ Head(s) \in Digits
               THEN <<Head(s)>> \o DigitRun(Tail(s)) ELSE <<>>
\* The magnitude of a digit run, accumulated as strtol does: -1 once it exceeds
\* 2147483648, -2 when it is exactly 2147483648 (in range only with a minus sign)
RECURSIVE DigitsValue(_, _)
DigitsValue(s, acc) ==
    IF s = <<>> THEN acc
    ELSE LET d == CharMinusZero(Head(s))
         IN  IF acc < 0 THEN -1
             ELSE IF acc > 214748364 \/ (acc = 214748364 /\ d > 8) THEN DigitsValue(Tail(s), -1)
             ELSE IF acc = 214748364 /\ d = 8 THEN DigitsValue(Tail(s), -2)
             ELSE DigitsValue(Tail(s), 10 * acc + d)
StdStoi(s) ==
    LET t    == SkipBlanks(s)
        neg  == t # <<>> /\ Head(t) = "-"
        u    == IF t # <<>> /\ Head(t) \in {"-", "+"} THEN Tail(t) ELSE t
        run  == DigitRun(u)
        mag  == DigitsValue(run, 0)
    IN  IF run = <<>> \/ mag = -1 \/ (mag = -2 /\ ~neg)
        THEN [ok |-> FALSE, v |-> 0]
        ELSE IF mag = -2 THEN [ok |-> TRUE, v |-> INT_MIN]
        ELSE [ok |-> TRUE, v |-> IF neg THEN -mag ELSE mag]

\* SqliteStorage::strToIntSafe: every exception of std::stoi becomes 0
strToIntSafe(s) == LET r == StdStoi(s) IN IF r.ok THEN r.v ELSE 0

\* std::string::find(needle) != npos
RECURSIVE ContainsAt(_, _, _)
ContainsAt(s, needle, i) ==
    IF i + Len(needle) - 1 > Len(s) THEN FALSE
    ELSE IF SubSeq(s, i, i + Len(needle) - 1) = needle THEN TRUE
    ELSE ContainsAt(s, needle, i + 1)
StrContains(s, needle) == ContainsAt(s, needle, 1)


-----------------------------------------------------------------------------
(* The SQLite connection: tables, AUTOINCREMENT sequence, open transaction *)

\* A row of table books (struct Book, and the schema of ensureSchema)
Book(title, author, totalPages, currentPage, status, isbn) ==
    [id |-> 0, title |-> title, author |-> author, totalPages |-> totalPages,
     currentPage |-> currentPage, status |-> status, isbn |-> isbn]

Ids(bks) == {b.id : b \in bks}

MaxRowid(bks) == IF bks = {} THEN 0 ELSE CHOOSE m \in Ids(bks) : \A i \in Ids(bks) : i <= m

\* The connection the statements run against: the tables as the connection sees
\* them, and the snapshot an open transaction would roll back to.
Conn(bks, sq) == [books |-> bks, seq |-> sq, active |-> FALSE, sbooks |-> {}, sseq |-> 0]

\* exec("BEGIN TRANSACTION;"): a failed BEGIN leaves the connection in autocommit
BeginTxn(c, fails) ==
    IF fails \/ c.active THEN c
    ELSE [c EXCEPT !.active = TRUE, !.sbooks = c.books, !.sseq = c.seq]

\* SQLite rolls the open transaction back by itself on SQLITE_FULL, SQLITE_IOERR,
\* SQLITE_NOMEM; the connection is in autocommit afterwards.
RollbackTxn(c) ==
    IF c.active THEN [c EXCEPT !.books = c.sbooks, !.seq = c.sseq, !.active = FALSE]
    ELSE c

\* exec("COMMIT;"): a failed COMMIT (disk full, I/O error) rolls back; COMMIT
\* with no transaction open is an error that changes nothing.
CommitTxn(c, fails) ==
    IF ~c.active THEN c
    ELSE IF fails THEN RollbackTxn(c)
    ELSE [c EXCEPT !.active = FALSE]

\* Whether exec("COMMIT;") reports an error
CommitErrors(c, fails) == fails \/ ~c.active

\* The plain rowid rule (INTEGER PRIMARY KEY without AUTOINCREMENT)
NextRowidNoAutoincrement(c) == MaxRowid(c.books) + 1

\* id INTEGER PRIMARY KEY AUTOINCREMENT: one more than the largest rowid the
\* table has ever held, which sqlite_sequence remembers across deletes.
NextRowid(c) == Max2(c.seq, MaxRowid(c.books)) + 1

\* Faults of one prepared statement: "prepare" (sqlite3_prepare_v2 fails),
\* "step" (sqlite3_step fails and undoes the statement alone), "abort"
\* (sqlite3_step fails and SQLite rolls back the open transaction).
StmtFaults == {"prepare", "step", "abort"}

\* SqliteStorage::add: result [c, ret], ret the new id or -1.  The rowid is
\* cast to int; within MaxId the cast is the identity.
add(c, b, fault) ==
    IF fault = "prepare" THEN [c |-> c, ret |-> -1]
    ELSE IF fault = "step" THEN [c |-> c, ret |-> -1]
    ELSE IF fault = "abort" THEN [c |-> RollbackTxn(c), ret |-> -1]
    ELSE LET nid == NextRowid(c)
         IN  [c |-> [c EXCEPT !.books = @ \cup {[b EXCEPT !.id = nid]}, !.seq = nid],
              ret |-> nid]

\* updateProgress whose UPDATE has no WHERE clause
updateProgressAllRows(c, id, currentPage, status, fault) ==
    IF fault \in StmtFaults THEN [c |-> c, ret |-> FALSE]
    ELSE [c |-> [c EXCEPT !.books =
                    {[b EXCEPT !.currentPage = currentPage, !.status = status] : b \in @}],
          ret |-> TRUE]

\* SqliteStorage::updateProgress: UPDATE ... WHERE id=?; SQLITE_DONE also when
\* no row has the id.
updateProgress(c, id, currentPage, status, fault) ==
    IF fault = "prepare" THEN [c |-> c, ret |-> FALSE]
    ELSE IF fault = "step" THEN [c |-> c, ret |-> FALSE]
    ELSE IF fault = "abort" THEN [c |-> RollbackTxn(c), ret |-> FALSE]
    ELSE [c |-> [c EXCEPT !.books =
                    {IF b.id = id
                     THEN [b EXCEPT !.currentPage = currentPage, !.status = status]
                     ELSE b : b \in @}],
          ret |-> TRUE]

\* updateStatus without the CASE WHEN ?=2 coupling
updateStatusKeepPage(c, id, status, fault) ==
    IF fault \in StmtFaults THEN [c |-> c, ret |-> FALSE]
    ELSE [c |-> [c EXCEPT !.books =
                    {IF b.id = id THEN [b EXCEPT !.status = status] ELSE b : b \in @}],
          ret |-> TRUE]

\* SqliteStorage::updateStatus: status=?, current_page = CASE WHEN ?=2 THEN
\* total_pages ELSE current_page END
updateStatus(c, id, status, fault) ==
    IF fault = "prepare" THEN [c |-> c, ret |-> FALSE]
    ELSE IF fault = "step" THEN [c |-> c, ret |-> FALSE]
    ELSE IF fault = "abort" THEN [c |-> RollbackTxn(c), ret |-> FALSE]
    ELSE [c |-> [c EXCEPT !.books =
                    {IF b.id = id
                     THEN [b EXCEPT !.status = status,
                                    !.currentPage = IF status = 2 THEN b.totalPages
                                                    ELSE b.currentPage]
                     ELSE b : b \in @}],
          ret |-> TRUE]

\* remove that reports success and deletes nothing
removeKeepsRow(c, id, fault) ==
    IF fault \in StmtFaults THEN [c |-> c, ret |-> FALSE]
    ELSE [c |-> c, ret |-> TRUE]

\* SqliteStorage::remove: DELETE FROM books WHERE id=?
remove(c, id, fault) ==
    IF fault = "prepare" THEN [c |-> c, ret |-> FALSE]
    ELSE IF fault = "step" THEN [c |-> c, ret |-> FALSE]
    ELSE IF fault = "abort" THEN [c |-> RollbackTxn(c), ret |-> FALSE]
    ELSE [c |-> [c EXCEPT !.books = {b \in @ : b.id # id}], ret |-> TRUE]

\* SqliteStorage::get
get(bks, id) == IF id \in Ids(bks) THEN {b \in bks : b.id = id} ELSE {}

\* setDailyRate whose insert leaves an existing row alone (ON CONFLICT DO NOTHING)
setDailyRateKeepsFirst(st, rate, fault) ==
    IF fault \in StmtFaults THEN [settings |-> st, ret |-> FALSE]
    ELSE [settings |-> [k \in DOMAIN st \cup {"daily_rate"} |->
                           IF k \in DOMAIN st THEN st[k] ELSE IntToStr(Max2(0, rate))],
          ret |-> TRUE]

\* SqliteStorage::setDailyRate: upsert of to_string(max(0, rate)) under 'daily_rate'
setDailyRate(st, rate, fault) ==
    IF fault \in StmtFaults THEN [settings |-> st, ret |-> FALSE]
    ELSE [settings |-> [k \in DOMAIN st \cup {"daily_rate"} |->
                           IF k = "daily_rate" THEN IntToStr(Max2(0, rate)) ELSE st[k]],
          ret |-> TRUE]

\* SqliteStorage::getDailyRate: 0 when the row is absent or its text is no number
getDailyRate(st) ==
    LET rate == IF "daily_rate" \in DOMAIN st
                THEN (LET r == StdStoi(st["daily_rate"]) IN IF r.ok THEN r.v ELSE 0)
                ELSE 0
    IN  Max2(0, rate)

-----------------------------------------------------------------------------
(* CSV bulk import *)

DQ == "\""

\* SqliteStorage::csvParse: the loop over the characters of one line
RECURSIVE csvParseFrom(_, _, _, _, _)
csvParseFrom(line, i, cur, inQ, cols) ==
    IF i > Len(line) THEN Append(cols, cur)
    ELSE LET c == line[i]
         IN  IF inQ
             THEN IF c = DQ
                  THEN IF i + 1 <= Len(line) /\ line[i + 1] = DQ
                       THEN csvParseFrom(line, i + 2, Append(cur, DQ), TRUE, cols)
                       ELSE csvParseFrom(line, i + 1, cur, FALSE, cols)
                  ELSE csvParseFrom(line, i + 1, Append(cur, c), TRUE, cols)
             ELSE IF c = "," THEN csvParseFrom(line, i + 1, <<>>, FALSE, Append(cols, cur))
                  ELSE IF c = DQ THEN csvParseFrom(line, i + 1, cur, TRUE, cols)
                  ELSE csvParseFrom(line, i + 1, Append(cur, c), FALSE, cols)

csvParse(line) == csvParseFrom(line, 1, <<>>, FALSE, <<>>)

\* The Book importCsv builds from the columns of a row of at least 7 columns
rowBook(cols) ==
    LET totalPages == Max2(0, strToIntSafe(cols[4]))
    IN  Book(cols[2], cols[3], totalPages,
             StdClamp(strToIntSafe(cols[5]), 0, totalPages),
             StdClamp(strToIntSafe(cols[6]), 0, 2),
             cols[7])

\* "naive header check": line.find("id,") == npos rewinds to the first line
idComma == <<"i", "d", ",">>
dataLines(lines) == IF StrContains(lines[1], idComma) THEN Tail(lines) ELSE lines

\* A file to import: absent (the ifstream does not open) or its lines
NoFile == [exists |-> FALSE, lines |-> <<>>]
TextFile(lines) == [exists |-> TRUE, lines |-> lines]

\* The lines of the files the model imports, and csvParse and the header check
\* tabulated on them (evaluated once; other lines are parsed when met)
RECURSIVE JoinComma(_)
JoinComma(fields) ==
    IF Len(fields) = 0 THEN <<>>
    ELSE IF Len(fields) = 1 THEN fields[1]
    ELSE fields[1] \o <<",">> \o JoinComma(Tail(fields))

Isbn13Sample == <<"9", "7", "8", "0", "3", "0", "6", "4", "0", "6", "1", "5", "7">>

HeaderLine ==
    JoinComma(<<<<"i", "d">>, <<"t", "i", "t", "l", "e">>, <<"a", "u", "t", "h", "o", "r">>,
                <<"t", "o", "t", "a", "l", "P", "a", "g", "e", "s">>,
                <<"c", "u", "r", "r", "e", "n", "t", "P", "a", "g", "e">>,
                <<"s", "t", "a", "t", "u", "s">>, <<"i", "s", "b", "n">>>>)
RowA == JoinComma(<<<<"7">>, <<"A">>, <<"b">>, <<"3">>, <<"1">>, <<"1">>, <<>>>>)
RowC == JoinComma(<<<<"1">>, <<"C">>, <<>>, <<"0">>, <<"0">>, <<"0">>, Isbn13Sample>>)
\* a row of 3 columns
RowShort == JoinComma(<<<<"2">>, <<"A">>, <<"b">>>>)
\* numeric columns that are no numbers or out of range
RowOdd == JoinComma(<<<<"x">>, <<"C">>, <<>>, <<"-", "4">>, <<"9">>, <<"z">>, Isbn13Sample>>)

ImportFiles ==
    { NoFile,
      TextFile(<<>>),
      TextFile(<<RowA, RowC>>),
      TextFile(<<HeaderLine, RowA, RowShort, RowC>>),
      TextFile(<<HeaderLine, RowOdd>>) }

ImportLines == UNION {{f.lines[i] : i \in 1..Len(f.lines)} : f \in ImportFiles}
csvParseTable == [line \in ImportLines |-> csvParse(line)]
csvParseOf(line) == IF line \in ImportLines THEN csvParseTable[line] ELSE csvParse(line)
rowBookTable == [line \in ImportLines |->
                    IF Len(csvParse(line)) < 7 THEN Book(<<>>, <<>>, 0, 0, 0, <<>>)
                    ELSE rowBook(csvParse(line))]
rowBookOf(line, cols) == IF line \in ImportLines THEN rowBookTable[line] ELSE rowBook(cols)
dataLinesTable == [f \in {g \in ImportFiles : g.lines # <<>>} |-> dataLines(f.lines)]
dataLinesOf(file) == IF file \in ImportFiles THEN dataLinesTable[file] ELSE dataLines(file.lines)

\* the row loop of importCsv ending at the first row of fewer than 7 columns
RECURSIVE importRowsStopAtShort(_, _, _, _, _)
importRowsStopAtShort(lines, i, c, plan, faults) ==
    IF i > Len(lines) THEN [c |-> c, faults |-> faults]
    ELSE LET cols == csvParseOf(lines[i])
         IN  IF Len(cols) < 7 THEN [c |-> c, faults |-> faults]
             ELSE LET r == add(c, rowBookOf(lines[i], cols), plan.rows[i])
                  IN  importRowsStopAtShort(lines, i + 1, r.c, plan,
                                            IF plan.rows[i] = "none" THEN faults
                                            ELSE faults \cup {<<"row", i>>})

\* The row loop of importCsv: rows of fewer than 7 columns are skipped, the
\* result of add is dropped.  plan.rows[i] is the fault of the add of line i.
RECURSIVE importRows(_, _, _, _, _)
importRows(lines, i, c, plan, faults) ==
    IF i > Len(lines) THEN [c |-> c, faults |-> faults]
    ELSE LET cols == csvParseOf(lines[i])
         IN  IF Len(cols) < 7 THEN importRows(lines, i + 1, c, plan, faults)
             ELSE LET r == add(c, rowBookOf(lines[i], cols), plan.rows[i])
                  IN  importRows(lines, i + 1, r.c, plan,
                                 IF plan.rows[i] = "none" THEN faults
                                 ELSE faults \cup {<<"row", i>>})

\* importCsv that empties the table before it reads the rows
importCsvReplacing(c, file, plan) ==
    IF ~file.exists \/ file.lines = <<>> THEN [c |-> c, ret |-> FALSE, faults |-> {}]
    ELSE LET data == dataLinesOf(file)
             c1   == BeginTxn([c EXCEPT !.books = {}], plan.begin)
             r    == importRows(data, 1, c1, plan, {})
             c2   == CommitTxn(r.c, plan.commit)
         IN  [c |-> c2, ret |-> TRUE, faults |-> r.faults]

\* SqliteStorage::importCsv: result [c, ret, faults]; faults are the storage
\* steps that failed during the call.
importCsv(c, file, plan) ==
    IF ~file.exists \/ file.lines = <<>> THEN [c |-> c, ret |-> FALSE, faults |-> {}]
    ELSE LET data == dataLinesOf(file)
             c1   == BeginTxn(c, plan.begin)
             r    == importRows(data, 1, c1, plan, {})
             c2   == CommitTxn(r.c, plan.commit)
         IN  [c |-> c2, ret |-> TRUE,
              faults |-> (IF plan.begin THEN {<<"begin", 0>>} ELSE {})
                         \cup r.faults
                         \cup (IF CommitErrors(r.c, plan.commit) THEN {<<"commit", 0>>} ELSE {})]

\* The rows of a file that importCsv passes to add
RECURSIVE validRowsFrom(_, _)
validRowsFrom(lines, i) ==
    IF i > Len(lines) THEN <<>>
    ELSE LET cols == csvParseOf(lines[i])
         IN  IF Len(cols) < 7 THEN validRowsFrom(lines, i + 1)
             ELSE <<rowBookOf(lines[i], cols)>> \o validRowsFrom(lines, i + 1)
validRowsTable == [f \in {g \in ImportFiles : g.exists /\ g.lines # <<>>} |->
                      validRowsFrom(dataLines(f.lines), 1)]
validRows(file) ==
    IF ~file.exists \/ file.lines = <<>> THEN <<>>
    ELSE validRowsTable[file]

-----------------------------------------------------------------------------
(* Inputs of the store operations *)

BookA == Book(<<"A">>, <<"b">>, 3, 1, 1, <<>>)
BookC == Book(<<"C">>, <<>>, 0, 0, 0, Isbn13Sample)
BookInputs == {BookA, BookC}

PageInputs == {5}
StatusInputs == {0, 1, 2}
RateInputs == {-1, 15}

\* Outside a transaction "abort" is "step": the failed statement alone is undone
FaultChoices == IF MaxFaults > 0 THEN {"none", "prepare", "step"} ELSE {"none"}

planFaultCount(plan) ==
    Cardinality({i \in DOMAIN plan.rows : plan.rows[i] # "none"})
    + (IF plan.begin THEN 1 ELSE 0) + (IF plan.commit THEN 1 ELSE 0)

\* Inside the transaction of importCsv a failed prepare acts as a failed step
RowFaults == {"step", "abort"}

\* Fault plans of an import of n data lines: at most MaxFaults injected faults
MaxDataLines == CHOOSE n \in 0..10 : \A f \in ImportFiles : Len(f.lines) <= n
                                      /\ \E g \in ImportFiles : Len(g.lines) = n
ImportPlansTable ==
    [n \in 0..MaxDataLines |->
        {plan \in [begin : BOOLEAN, commit : BOOLEAN, rows : [1..n -> RowFaults \cup {"none"}]] :
            planFaultCount(plan) <= MaxFaults}]
ImportPlans(n) == ImportPlansTable[n]

-----------------------------------------------------------------------------
(* The store driven through its public operations *)

InitIsbnIdle == isbnIn = <<>> /\ isbnOut = [done |-> FALSE, value |-> <<>>]
\* main has reached its menu loop
AtMenu == [pc |-> "menu"]
InitLookupIdle == g_useGoogleBooks = TRUE /\ lk = [op |-> "none"] /\ startup = AtMenu
InitStore ==
    /\ books = {}
    /\ seq = 0
    /\ settings = [k \in {} |-> <<>>]
    /\ usedIds = {}
    /\ last = [op |-> "init"]

Init == InitStore /\ InitIsbnIdle /\ InitLookupIdle

\* Every operation returns its failure indicator on a fault whatever its
\* arguments are, so one argument stands for all in a call that meets a fault
ArgsUnder(fault, S) == IF fault = "none" THEN S ELSE {CHOOSE x \in S : TRUE}

\* The persisted tables as a call finds them
Tables == [books |-> books, settings |-> settings]

\* What `last` keeps of a call: of a call that met a storage fault the
\* operation, its result and the tables it found; of any other call its
\* arguments
Called(op, fault, ret, args) ==
    IF fault # "none" THEN [op |-> op, ret |-> ret, faulted |-> TRUE, before |-> Tables]
    ELSE [a \in DOMAIN args \cup {"op", "ret", "faulted"} |->
            IF a = "op" THEN op ELSE IF a = "ret" THEN ret
            ELSE IF a = "faulted" THEN FALSE ELSE args[a]]

Add ==
    \E fault \in FaultChoices : \E b \in ArgsUnder(fault, BookInputs) :
        LET r == add(Conn(books, seq), b, fault)
        IN  /\ seq < MaxId
            /\ books' = r.c.books
            /\ seq' = r.c.seq
            /\ usedIds' = usedIds \cup Ids(r.c.books)
            /\ last' = Called("add", fault, r.ret, [book |-> b])
            /\ UNCHANGED <<settings, isbnVars, lookupVars>>

UpdateProgress ==
    \E fault \in FaultChoices :
      \E id \in ArgsUnder(fault, 1..MaxId), p \in PageInputs, s \in ArgsUnder(fault, StatusInputs) :
        LET r == updateProgress(Conn(books, seq), id, p, s, fault)
        IN  /\ books' = r.c.books
            /\ seq' = r.c.seq
            /\ usedIds' = usedIds \cup Ids(r.c.books)
            /\ last' = Called("updateProgress", fault, r.ret,
                              [id |-> id, page |-> p, status |-> s])
            /\ UNCHANGED <<settings, isbnVars, lookupVars>>

UpdateStatus ==
    \E fault \in FaultChoices :
      \E id \in ArgsUnder(fault, 1..MaxId), s \in ArgsUnder(fault, StatusInputs) :
        LET r == updateStatus(Conn(books, seq), id, s, fault)
        IN  /\ books' = r.c.books
            /\ seq' = r.c.seq
            /\ usedIds' = usedIds \cup Ids(r.c.books)
            /\ last' = Called("updateStatus", fault, r.ret, [id |-> id, status |-> s])
            /\ UNCHANGED <<settings, isbnVars, lookupVars>>

Remove ==
    \E fault \in FaultChoices : \E id \in ArgsUnder(fault, 1..MaxId) :
        LET r == remove(Conn(books, seq), id, fault)
        IN  /\ books' = r.c.books
            /\ seq' = r.c.seq
            /\ usedIds' = usedIds \cup Ids(r.c.books)
            /\ last' = Called("remove", fault, r.ret, [id |-> id])
            /\ UNCHANGED <<settings, isbnVars, lookupVars>>

SetDailyRate ==
    \E fault \in FaultChoices : \E rate \in ArgsUnder(fault, RateInputs) :
        LET r == setDailyRate(settings, rate, fault)
        IN  /\ settings' = r.settings
            /\ last' = Called("setDailyRate", fault, r.ret, [rate |-> rate])
            /\ UNCHANGED <<books, seq, usedIds, isbnVars, lookupVars>>

ImportCsv ==
    \E file \in ImportFiles :
        \E plan \in ImportPlans(IF file.exists /\ file.lines # <<>>
                                THEN Len(dataLinesOf(file)) ELSE 0) :
            LET r == importCsv(Conn(books, seq), file, plan)
            IN  /\ seq + Len(validRows(file)) <= MaxId
                /\ books' = r.c.books
                /\ seq' = r.c.seq
                /\ usedIds' = usedIds \cup Ids(r.c.books)
                /\ last' = [op |-> "importCsv", file |-> file, ret |-> r.ret,
                            faulted |-> r.faults # {}, before |-> Tables]
                /\ UNCHANGED <<settings, isbnVars, lookupVars>>

Next == Add \/ UpdateProgress \/ UpdateStatus \/ Remove \/ SetDailyRate \/ ImportCsv

Spec == Init /\ [][Next]_vars

-----------------------------------------------------------------------------
(* Claims about the record store and the bulk import (under Spec) *)

RowOf(bks, id) == CHOOSE b \in bks : b.id = id
Fields(b) == [b EXCEPT !.id = 0]
FailureIndicator(op, ret) == IF op = "add" THEN ret = -1 ELSE ret = FALSE

\* The rows a step has created: those whose id the table did not hold before
Created(before, after) == {b \in after : b.id \notin Ids(before)}

\* C1: importAll is all-or-nothing.  After every importCsv call: if a storage
\* step of the batch failed (BEGIN, the insert of a row, COMMIT), the table
\* books is the table before the call; if none failed, the table has gained
\* exactly the valid rows of the file.
C1_ImportAllOrNothing ==
    last.op = "importCsv" =>
        IF last.faulted THEN books = last.before.books
        ELSE /\ last.before.books \subseteq books
             /\ Cardinality(Created(last.before.books, books)) = Len(validRows(last.file))
             /\ \A i \in 1..Len(validRows(last.file)) :
                   \E b \in Created(last.before.books, books) :
                       Fields(b) = validRows(last.file)[i]

\* C2: storage errors are reported.  After every store operation in which a
\* prepare or execute step failed, the operation has returned its failure
\* indicator (false, -1 for add) and books and settings are as before the call.
C2_StorageErrorsReported ==
    (last.op # "init" /\ last.faulted) =>
        /\ FailureIndicator(last.op, last.ret)
        /\ books = last.before.books
        /\ settings = last.before.settings

\* C3: ids are never reused.  Every row a step creates has an id greater than
\* every id any stored row has had before, removed rows included.
C3_IdsNeverReused ==
    [][ \A b \in Created(books, books') : \A u \in usedIds : b.id > u ]_vars

\* C3 witness: add after the only row (which held the highest id) was removed:
\* the table holds the new row alone, under an id above the removed one.
C3_Witness ==
    /\ last.op = "add" /\ ~last.faulted
    /\ Ids(books) = {last.ret}
    /\ \E u \in usedIds : u < last.ret

\* C4: updateStatus(id, s) on an existing row sets its status to s, and sets
\* currentPage to the row's totalPages exactly when s = 2 (Finished); for
\* s = 0 or 1 currentPage is unchanged.
C4_SetStatusCouplesPage ==
    [][ (last'.op = "updateStatus" /\ ~last'.faulted /\ last'.id \in Ids(books)) =>
          /\ last'.id \in Ids(books')
          /\ RowOf(books', last'.id).status = last'.status
          /\ RowOf(books', last'.id).currentPage =
                IF last'.status = 2 THEN RowOf(books, last'.id).totalPages
                ELSE RowOf(books, last'.id).currentPage
      ]_vars

\* C4 witness: updateStatus(id, Finished) has moved a row of 3 pages, entered
\* at page 1 or updated to page 5, to page 3.
C4_Witness ==
    /\ last.op = "updateStatus" /\ ~last.faulted /\ last.status = 2 /\ last.ret = TRUE
    /\ \E b \in books : b.id = last.id /\ b.totalPages = 3 /\ b.currentPage = 3

-----------------------------------------------------------------------------
(* ISBN codec *)

\* onlyDigitsX: keeps digits and X/x, folds x to X
RECURSIVE onlyDigitsX(_)
onlyDigitsX(s) ==
    IF s = <<>> THEN <<>>
    ELSE LET c == Head(s)
         IN  IF c \in Digits \/ c = "X" \/ c = "x"
             THEN <<IF c = "x" THEN "X" ELSE c>> \o onlyDigitsX(Tail(s))
             ELSE onlyDigitsX(Tail(s))

isIsbn10(s) == Len(s) = 10
isIsbn13(s) == Len(s) = 13

\* The loop of isbn10to13: sum += (i%2==0) ? d : 3*d over core, i from 0
RECURSIVE weightedSum(_, _)
weightedSum(core, k) ==
    IF k > Len(core) THEN 0
    ELSE (IF (k - 1) % 2 = 0 THEN CharMinusZero(core[k]) ELSE 3 * CharMinusZero(core[k]))
         + weightedSum(core, k + 1)

\* isbn10to13 with the check digit taken as 10 - sum % 10, the final % 10 left out
isbn10to13NoFinalMod(s10) ==
    LET core == <<"9", "7", "8">> \o SubSeq(s10, 1, Min2(9, Len(s10)))
        sum  == weightedSum(core, 1)
        cd   == 10 - (sum % 10)
    IN  core \o IntToStr(cd)

\* isbn10to13: "978" + s10.substr(0, 9) + to_string((10 - sum % 10) % 10)
isbn10to13(s10) ==
    LET core == <<"9", "7", "8">> \o SubSeq(s10, 1, Min2(9, Len(s10)))
        sum  == weightedSum(core, 1)
        cd   == (10 - (sum % 10)) % 10
    IN  core \o IntToStr(cd)

\* normalizeIsbn testing the length of the raw input instead of the cleaned one
normalizeIsbnRawLength(in) ==
    LET s == onlyDigitsX(in)
    IN  IF isIsbn13(in) THEN s
        ELSE IF isIsbn10(in) THEN isbn10to13(s)
        ELSE <<>>

\* normalizeIsbn: the empty string is "invalid"
normalizeIsbn(in) ==
    LET s == onlyDigitsX(in)
    IN  IF isIsbn13(s) THEN s
        ELSE IF isIsbn10(s) THEN isbn10to13(s)
        ELSE <<>>

(* Raw inputs: sample ISBNs and what up to MaxEdits single-character edits
   (substitute, insert, delete) make of them *)
Isbn10Sample == <<"0", "3", "0", "6", "4", "0", "6", "1", "5", "2">>
Isbn10XSample == <<"0", "8", "0", "4", "4", "2", "9", "5", "7", "X">>
Isbn10Hyphenated == <<"0", "-", "3", "0", "6", "-", "4", "0", "6", "1", "5", "-", "2">>
IsbnSamples == {<<>>, Isbn10Sample, Isbn10XSample, Isbn10Hyphenated, Isbn13Sample}

EditChars == {"0", "4", "X", "x", "-"}

EditsOfOne(s) ==
    {[s EXCEPT ![p] = c] : p \in 1..Len(s), c \in EditChars}
    \cup {SubSeq(s, 1, p - 1) \o <<c>> \o SubSeq(s, p, Len(s)) : p \in 1..(Len(s) + 1), c \in EditChars}
    \cup {SubSeq(s, 1, p - 1) \o SubSeq(s, p + 1, Len(s)) : p \in 1..Len(s)}

RECURSIVE EditsOf(_, _)
EditsOf(S, n) == IF n = 0 THEN S ELSE EditsOf(S \cup UNION {EditsOfOne(s) : s \in S}, n - 1)

IsbnInputs == EditsOf(IsbnSamples, MaxEdits)

InitStoreIdle == InitStore

InitIsbn ==
    /\ InitStoreIdle /\ InitLookupIdle
    /\ isbnIn \in IsbnInputs
    /\ isbnOut = [done |-> FALSE, value |-> <<>>]

NormalizeIsbn ==
    /\ ~isbnOut.done
    /\ isbnOut' = [done |-> TRUE, value |-> normalizeIsbn(isbnIn)]
    /\ UNCHANGED <<isbnIn, storeVars, lookupVars>>

NextIsbn == NormalizeIsbn

SpecIsbn == InitIsbn /\ [][NextIsbn]_vars

-----------------------------------------------------------------------------
(* Claims about the ISBN codec (under SpecIsbn) *)

\* The cleaned form of a raw input: its digits and X/x in order, x as X
KeepsChar(c) == c \in Digits \cup {"X", "x"}
CleanedForm(raw) ==
    LET kept == SelectSeq(raw, KeepsChar)
    IN  [i \in 1..Len(kept) |-> IF kept[i] = "x" THEN "X" ELSE kept[i]]

DigitValue(c) == CHOOSE d \in 0..9 : DigitChar(d) = c

\* sum over the 12 leading digits of digit * (1 if zero-based index is even else 3)
RECURSIVE LeadSum(_, _)
LeadSum(lead, i) ==
    IF i > Len(lead) THEN 0
    ELSE DigitValue(lead[i]) * (IF i % 2 = 1 THEN 1 ELSE 3) + LeadSum(lead, i + 1)

\* C5: for every input whose cleaned form has length 10 with digits in its
\* first nine positions, normalize returns "978" + the first nine digits + c,
\* c the digit that makes the weighted sum of the 12 leading digits plus c
\* divisible by 10; the tenth character does not influence the result; and
\* normalize("0306406152") = "9780306406157".
C5_Isbn10To13 ==
    LET cl == CleanedForm(isbnIn)
        out == isbnOut.value
    IN  (isbnOut.done /\ Len(cl) = 10 /\ \A i \in 1..9 : cl[i] \in Digits) =>
          /\ Len(out) = 13
          /\ SubSeq(out, 1, 12) = <<"9", "7", "8">> \o SubSeq(cl, 1, 9)
          /\ out[13] \in Digits
          /\ (LeadSum(SubSeq(out, 1, 12), 1) + DigitValue(out[13])) % 10 = 0
          /\ \A c \in Digits \cup {"X"} : normalizeIsbn([cl EXCEPT ![10] = c]) = out
          /\ (isbnIn = Isbn10Sample => out = Isbn13Sample)

\* C5 witness: normalize has run on "0306406152" and returned "9780306406157"
C5_Witness ==
    isbnOut.done /\ isbnIn = Isbn10Sample /\ isbnOut.value = Isbn13Sample

\* C6: normalize returns invalid (the empty string) if and only if the cleaned
\* string has a length other than 10 or 13; a cleaned string of length 13 is
\* returned unchanged.
C6_InvalidIffLength ==
    LET cl == CleanedForm(isbnIn)
    IN  isbnOut.done =>
          /\ (isbnOut.value = <<>>) <=> (Len(cl) \notin {10, 13})
          /\ (Len(cl) = 13 => isbnOut.value = cl)

\* C6 witness: a raw input of 13 characters that cleans to 12 was rejected
C6_Witness ==
    /\ isbnOut.done /\ isbnOut.value = <<>>
    /\ Len(isbnIn) = 13 /\ Len(CleanedForm(isbnIn)) = 12

\* C7: every non-invalid result of normalize is in canonical 13-digit form:
\* exactly 13 characters, each a decimal digit.
C7_CanonicalThirteenDigits ==
    (isbnOut.done /\ isbnOut.value # <<>>) =>
        /\ Len(isbnOut.value) = 13
        /\ \A i \in 1..Len(isbnOut.value) : isbnOut.value[i] \in Digits

-----------------------------------------------------------------------------
(* Metadata lookup chain *)

(* JSON values as nlohmann::json holds them *)
JNull == [t |-> "null"]
JNum == [t |-> "number"]
JStr(s) == [t |-> "string", v |-> s]
JArr(elems) == [t |-> "array", v |-> elems]
JObj(members) == [t |-> "object", v |-> members]

\* json::contains(key): false on anything but an object
Contains(j, key) == j.t = "object" /\ key \in DOMAIN j.v

\* json::operator[](key) on a non-const value: the member, null for a missing
\* member or a null value, type_error on any other type
Member(j, key) ==
    IF j.t = "object" THEN [ok |-> TRUE, v |-> IF key \in DOMAIN j.v THEN j.v[key] ELSE JNull]
    ELSE IF j.t = "null" THEN [ok |-> TRUE, v |-> JNull]
    ELSE [ok |-> FALSE, v |-> JNull]

\* json::get<std::string>(): type_error unless the value is a string
GetString(j) == IF j.t = "string" THEN [ok |-> TRUE, v |-> j.v] ELSE [ok |-> FALSE, v |-> <<>>]

IsArray(j) == j.t = "array"
\* json::empty()
IsEmpty(j) == CASE j.t = "null" -> TRUE
                [] j.t = "array" -> Len(j.v) = 0
                [] j.t = "object" -> DOMAIN j.v = {}
                [] OTHER -> FALSE

(* What a guarded block of lookupIsbn ends in *)
Return(title, author) == [st |-> "return", title |-> title, author |-> author, what |-> "none"]
Fall == [st |-> "fall", title |-> <<>>, author |-> <<>>, what |-> "none"]
Throw(what) == [st |-> "throw", title |-> <<>>, author |-> <<>>, what |-> what]

\* A handler catch (nlohmann::json::parse_error&): type errors pass through
catchParseError(outcome) ==
    IF outcome.st = "throw" /\ outcome.what = "parse_error" THEN Fall ELSE outcome

\* catch (...) {} : every exception of the block ends the block
catchAll(outcome) == IF outcome.st = "throw" THEN Fall ELSE outcome

(* A response of a source as curl delivers it *)
NullOpt == [has |-> FALSE]
Some(x) == [has |-> TRUE, v |-> x]
NotJson == [json |-> FALSE, j |-> JNull]
JsonBody(j) == [json |-> TRUE, j |-> j]
Response(curl, code, body) == [curl |-> curl, code |-> code, body |-> body]

\* httpGet: nullopt when curl_easy_init fails, the transfer fails or the
\* status is not 2xx; otherwise the body
httpGet(resp) ==
    IF resp.curl = "noinit" THEN NullOpt
    ELSE IF resp.curl # "ok" \/ resp.code < 200 \/ resp.code >= 300 THEN NullOpt
    ELSE Some(resp.body)

\* The try block on the Open Library body (main.cpp:194-202)
openLibraryBlock(body) ==
    IF ~body.json THEN Throw("parse_error")
    ELSE LET j == body.j
             title  == IF Contains(j, "title") THEN GetString(j.v["title"])
                       ELSE [ok |-> TRUE, v |-> <<>>]
             author == IF Contains(j, "by_statement") THEN GetString(j.v["by_statement"])
                       ELSE [ok |-> TRUE, v |-> <<>>]
         IN  IF ~title.ok THEN Throw("type_error")
             ELSE IF ~author.ok THEN Throw("type_error")
             ELSE IF title.v # <<>> THEN Return(title.v, author.v)
             ELSE Fall

\* The try block on the Google Books body (main.cpp:216-224)
googleBooksBlock(body) ==
    IF ~body.json THEN Throw("parse_error")
    ELSE LET j == body.j
         IN  IF ~(Contains(j, "items") /\ IsArray(j.v["items"]) /\ ~IsEmpty(j.v["items"]))
             THEN Fall
             ELSE LET vim == Member(j.v["items"].v[1], "volumeInfo")
                      vi  == vim.v
                      title  == IF Contains(vi, "title") THEN GetString(vi.v["title"])
                                ELSE [ok |-> TRUE, v |-> <<>>]
                      author == IF Contains(vi, "authors") /\ IsArray(vi.v["authors"])
                                   /\ ~IsEmpty(vi.v["authors"])
                                THEN GetString(vi.v["authors"].v[1])
                                ELSE [ok |-> TRUE, v |-> <<>>]
                  IN  IF ~vim.ok THEN Throw("type_error")
                      ELSE IF ~title.ok THEN Throw("type_error")
                      ELSE IF ~author.ok THEN Throw("type_error")
                      ELSE IF title.v # <<>> \/ author.v # <<>> THEN Return(title.v, author.v)
                      ELSE Fall

\* The result of a lookup: the sources queried, in order, and how it ended:
\* "found" with title and author, "notfound" (nullopt), or "exception"
LookupEnd(queries, outcome, o) ==
    [queries |-> queries, outcome |-> outcome, title |-> o.title, author |-> o.author]

\* lookupIsbn (main.cpp:185-230)
lookupIsbn(rawIsbn, primary, secondary, useGoogleBooks) ==
    LET isbn13 == normalizeIsbn(rawIsbn)
        body1  == httpGet(primary)
        o1     == IF body1.has THEN catchAll(openLibraryBlock(body1.v)) ELSE Fall
        body2  == httpGet(secondary)
        o2     == IF body2.has THEN catchAll(googleBooksBlock(body2.v)) ELSE Fall
    IN  IF isbn13 = <<>> THEN LookupEnd(<<>>, "notfound", Fall)
        ELSE IF o1.st = "return" THEN LookupEnd(<<"openlibrary">>, "found", o1)
        ELSE IF o1.st = "throw" THEN LookupEnd(<<"openlibrary">>, "exception", Fall)
        ELSE IF ~useGoogleBooks THEN LookupEnd(<<"openlibrary">>, "notfound", Fall)
        ELSE IF o2.st = "return" THEN LookupEnd(<<"openlibrary", "googlebooks">>, "found", o2)
        ELSE IF o2.st = "throw" THEN LookupEnd(<<"openlibrary", "googlebooks">>, "exception", Fall)
        ELSE LookupEnd(<<"openlibrary", "googlebooks">>, "notfound", Fall)

(* Responses the sources are drawn to give *)
Absent == [t |-> "absent"]
ObjOf(fields) == JObj([k \in {k2 \in DOMAIN fields : fields[k2] # Absent} |-> fields[k]])

ErrorPayload == ObjOf([error |-> ObjOf([code |-> JNum])])

\* transport failure, no curl handle, non-2xx status, or one of `bodies` under 200
ResponsesWith(bodies) ==
    { Response("noinit", 0, NotJson), Response("error", 0, NotJson),
      Response("ok", 404, NotJson), Response("ok", 300, JsonBody(ErrorPayload)) }
    \cup {Response("ok", 200, b) : b \in bodies}

PrimaryBodies ==
    { NotJson, JsonBody(JArr(<<>>)), JsonBody(ErrorPayload) }
    \cup { JsonBody(ObjOf([title |-> t, by_statement |-> a])) :
             t \in {Absent, JStr(<<>>), JStr(<<"T">>), JNull},
             a \in {Absent, JStr(<<"B">>), JNull} }
PrimaryResponses == ResponsesWith(PrimaryBodies)

VolumeInfos ==
    { JNull, JStr(<<"v">>) }
    \cup { ObjOf([title |-> t, authors |-> a]) :
             t \in {Absent, JStr(<<>>), JStr(<<"G">>), JNull},
             a \in {Absent, JNull, JArr(<<>>), JArr(<<JStr(<<"A">>), JStr(<<"Z">>)>>),
                    JArr(<<JStr(<<>>)>>), JArr(<<JNum>>)} }
SecondaryBodies ==
    { NotJson, JsonBody(JArr(<<>>)), JsonBody(ErrorPayload),
      JsonBody(ObjOf([items |-> JNull])), JsonBody(ObjOf([items |-> JArr(<<>>)])),
      JsonBody(ObjOf([items |-> JArr(<<JNum>>)])),
      JsonBody(ObjOf([items |-> JArr(<<ObjOf([id |-> JNum])>>)])) }
    \cup { JsonBody(ObjOf([items |-> JArr(<<ObjOf([volumeInfo |-> vi])>>)])) : vi \in VolumeInfos }
SecondaryResponses == ResponsesWith(SecondaryBodies)

\* addIsbnFlow passes lookupIsbn a normalized, non-empty ISBN
LookupIsbnInputs == {Isbn13Sample, normalizeIsbn(Isbn10XSample)}

\* g_useGoogleBooks holds what the startup checks of main left in it
InitLookup ==
    /\ InitStoreIdle /\ InitIsbnIdle
    /\ g_useGoogleBooks \in BOOLEAN
    /\ lk = [op |-> "none"]
    /\ startup = AtMenu

\* The call of lookupIsbn in addIsbnFlow (main.cpp:586); lk holds the call
\* until the flow has used its result
LookupIsbn ==
    \E isbn \in LookupIsbnInputs, primary \in PrimaryResponses, secondary \in SecondaryResponses :
        LET r == lookupIsbn(isbn, primary, secondary, g_useGoogleBooks)
        IN  /\ lk.op = "none"
            /\ lk' = [op |-> "lookupIsbn", isbn |-> isbn, primary |-> primary,
                      secondary |-> secondary, queries |-> r.queries,
                      outcome |-> r.outcome, title |-> r.title, author |-> r.author]
            /\ UNCHANGED <<g_useGoogleBooks, startup, storeVars, isbnVars>>

\* addIsbnFlow goes on with the result and returns to the menu (main.cpp:590-618)
LookupUsed ==
    /\ lk.op = "lookupIsbn"
    /\ lk' = [op |-> "none"]
    /\ UNCHANGED <<g_useGoogleBooks, startup, storeVars, isbnVars>>

NextLookup == LookupIsbn \/ LookupUsed

SpecLookup == InitLookup /\ [][NextLookup]_vars

-----------------------------------------------------------------------------
(* Claims about the lookup chain (under SpecLookup) *)

\* The source answered: the transfer succeeded with a 2xx status
Delivered(resp) == resp.curl = "ok" /\ resp.code >= 200 /\ resp.code < 300

\* The text of member `key` of a JSON object, "" when the member is missing
\* or no string
TextMember(j, key) ==
    IF j.t = "object" /\ key \in DOMAIN j.v /\ j.v[key].t = "string" THEN j.v[key].v ELSE <<>>

\* The title and the author the primary source's response carries
PrimaryTitle(resp) ==
    IF Delivered(resp) /\ resp.body.json THEN TextMember(resp.body.j, "title") ELSE <<>>
PrimaryAuthor(resp) ==
    IF Delivered(resp) /\ resp.body.json THEN TextMember(resp.body.j, "by_statement") ELSE <<>>

\* The first result of the secondary source: volumeInfo of items[0]
FirstVolume(resp) ==
    LET j == resp.body.j
    IN  IF /\ Delivered(resp) /\ resp.body.json /\ j.t = "object" /\ "items" \in DOMAIN j.v
           /\ j.v["items"].t = "array" /\ Len(j.v["items"].v) > 0
           /\ j.v["items"].v[1].t = "object" /\ "volumeInfo" \in DOMAIN j.v["items"].v[1].v
        THEN j.v["items"].v[1].v["volumeInfo"]
        ELSE JNull
SecondaryTitle(resp) == TextMember(FirstVolume(resp), "title")
SecondaryAuthor(resp) ==
    LET vi == FirstVolume(resp)
    IN  IF /\ vi.t = "object" /\ "authors" \in DOMAIN vi.v /\ vi.v["authors"].t = "array"
           /\ Len(vi.v["authors"].v) > 0 /\ vi.v["authors"].v[1].t = "string"
        THEN vi.v["authors"].v[1].v
        ELSE <<>>

QueriedSecondary == \E i \in 1..Len(lk.queries) : lk.queries[i] = "googlebooks"

\* C8: lookup query order.  In every lookup the primary source is queried
\* first; the secondary source is queried only if the primary did not yield a
\* non-empty title and the flag g_useGoogleBooks is true; when the primary
\* returns a non-empty title the secondary source is not queried.
C8_QueryOrder ==
    lk.op = "lookupIsbn" =>
        /\ Len(lk.queries) >= 1 /\ lk.queries[1] = "openlibrary"
        /\ \A i \in 2..Len(lk.queries) : lk.queries[i] = "googlebooks"
        /\ QueriedSecondary => (g_useGoogleBooks /\ PrimaryTitle(lk.primary) = <<>>)
        /\ PrimaryTitle(lk.primary) # <<>> => ~QueriedSecondary

\* C9: lookup result.  When the primary's response carries a non-empty title,
\* lookup returns the primary's title and author (author possibly empty);
\* otherwise, if the flag allows and the secondary's first result has a
\* non-empty title or author, lookup returns that result; otherwise not-found.
C9_LookupResult ==
    lk.op = "lookupIsbn" =>
        IF PrimaryTitle(lk.primary) # <<>>
        THEN /\ lk.outcome = "found"
             /\ lk.title = PrimaryTitle(lk.primary)
             /\ lk.author = PrimaryAuthor(lk.primary)
        ELSE IF /\ g_useGoogleBooks
                /\ (SecondaryTitle(lk.secondary) # <<>> \/ SecondaryAuthor(lk.secondary) # <<>>)
        THEN /\ lk.outcome = "found"
             /\ lk.title = SecondaryTitle(lk.secondary)
             /\ lk.author = SecondaryAuthor(lk.secondary)
        ELSE lk.outcome = "notfound"

\* C10: lookup never fails fatally.  Whatever the two sources do (transport
\* failure, non-2xx status, unparseable body, fields of unexpected type,
\* error payload), lookup ends in a result or in not-found, never in an
\* exception.
C10_NeverFatal ==
    lk.op = "lookupIsbn" => lk.outcome \in {"found", "notfound"}

\* C10 witness: the primary delivered a title that is no string, the
\* secondary a body that is no JSON; both were queried and lookup ended in
\* not-found.
C10_Witness ==
    /\ lk.op = "lookupIsbn" /\ lk.outcome = "notfound"
    /\ lk.queries = <<"openlibrary", "googlebooks">>
    /\ Delivered(lk.primary) /\ lk.primary.body.json
    /\ Contains(lk.primary.body.j, "title") /\ lk.primary.body.j.v["title"].t # "string"
    /\ Delivered(lk.secondary) /\ ~lk.secondary.body.json

-----------------------------------------------------------------------------
(* main: the startup checks and the session that follows them *)

\* googleBooksReady that takes every parsed body for a success
googleBooksReadyIgnoresError(key, trial) ==
    IF ~key THEN FALSE
    ELSE LET body == httpGet(trial)
         IN  IF ~body.has THEN FALSE
             ELSE body.v.json

\* googleBooksReady (main.cpp:162-181): key says GOOGLE_BOOKS_API_KEY is set and
\* not empty, trial is the answer to the tiny request
googleBooksReady(key, trial) ==
    IF ~key THEN FALSE
    ELSE LET body == httpGet(trial)
         IN  IF ~body.has THEN FALSE
             ELSE IF ~body.v.json THEN FALSE
             ELSE ~Contains(body.v.j, "error")

TrialBodies ==
    { NotJson, JsonBody(ErrorPayload), JsonBody(JArr(<<>>)),
      JsonBody(ObjOf([totalItems |-> JNum])) }
TrialResponses == ResponsesWith(TrialBodies)
\* main does not call googleBooksReady
NoRequest == Response("none", 0, NotJson)

\* The startup checks of main (main.cpp:678-706): netOK is internetOk(), keyOK
\* googleKeyPresent(), olUp what openLibraryOk() would answer, exits the
\* answer "1" to the prompt of line 700
StartupChecks ==
    \E netOK \in BOOLEAN, keyOK \in BOOLEAN, trial \in TrialResponses,
       olUp \in BOOLEAN, exits \in BOOLEAN :
        LET gapiOK == IF netOK /\ keyOK THEN googleBooksReady(keyOK, trial) ELSE FALSE
            olOK   == netOK /\ olUp
            asked  == netOK /\ ~gapiOK /\ olOK
        IN  /\ startup.pc = "checks"
            /\ g_useGoogleBooks' = gapiOK
            /\ startup' = [pc    |-> IF asked /\ exits THEN "exit" ELSE "menu",
                           key   |-> keyOK,
                           net   |-> netOK,
                           trial |-> IF netOK /\ keyOK THEN trial ELSE NoRequest]
            /\ UNCHANGED <<lk, storeVars, isbnVars>>

\* Menu choices of the loop of main (main.cpp:709-772): 3 (the lookup of
\* addIsbnFlow and its return) and 9 (set daily rate)
MenuLookupIsbn == startup.pc = "menu" /\ LookupIsbn
MenuLookupUsed == startup.pc = "menu" /\ LookupUsed
MenuSetDailyRate == startup.pc = "menu" /\ lk.op = "none" /\ SetDailyRate

InitSession ==
    /\ InitStore /\ InitIsbnIdle
    /\ g_useGoogleBooks = TRUE
    /\ lk = [op |-> "none"]
    /\ startup = [pc |-> "checks"]

NextSession == StartupChecks \/ MenuLookupIsbn \/ MenuLookupUsed \/ MenuSetDailyRate

SpecSession == InitSession /\ [][NextSession]_vars

-----------------------------------------------------------------------------
(* Claims about the readiness flag (under SpecSession) *)

\* The trial request succeeded with no error indicator
TrialSucceeded(resp) ==
    /\ Delivered(resp) /\ resp.body.json
    /\ ~(resp.body.j.t = "object" /\ "error" \in DOMAIN resp.body.j.v)

\* C11: readiness flag.  Once main is at its menu no step changes
\* g_useGoogleBooks; at the menu the flag is true only if a credential is
\* configured and the trial request succeeded with no error indicator, and
\* with no credential configured it is false whatever the network does.
C11_ReadinessFlag ==
    [][ /\ startup.pc = "menu" => (g_useGoogleBooks' = g_useGoogleBooks /\ startup' = startup)
        /\ startup'.pc = "menu" =>
              /\ g_useGoogleBooks' => (startup'.key /\ TrialSucceeded(startup'.trial))
              /\ ~startup'.key => ~g_useGoogleBooks'
      ]_vars

\* C11 witness: the checks left the flag true (credential set, trial request
\* answered without error) and a later lookup queried the secondary source
C11_Witness ==
    /\ startup.pc = "menu" /\ g_useGoogleBooks
    /\ startup.key /\ TrialSucceeded(startup.trial)
    /\ lk.op = "lookupIsbn" /\ QueriedSecondary

-----------------------------------------------------------------------------
(* importCsv of a text file into a fresh store, no storage fault *)

\* lines of a file the model imports
MaxLines == 3

\* a headerless row whose title ends in "id"
RowMadrid == JoinComma(<<<<"3">>, <<"M", "a", "d", "r", "i", "d">>, <<"b">>,
                         <<"3">>, <<"1">>, <<"1">>, <<>>>>)
\* a row with a quoted field that holds a comma
RowQuoted == JoinComma(<<<<"4">>, <<DQ, "a", ",", "b", DQ>>, <<>>, <<"9">>, <<"2">>, <<"2">>, <<>>>>)

\* Text of the numeric columns of a row: empty, negative, in range, above the
\* range, no number, a number followed by text, blank before the number
NumericTexts == { <<>>, <<"-", "4">>, <<"2">>, <<"9">>, <<"z">>, <<"3", "x">>, <<" ", "1">> }
NumericRows ==
    { JoinComma(<<<<"8">>, <<"N">>, <<>>, t, c, st, <<>>>>) :
        t \in NumericTexts, c \in NumericTexts, st \in NumericTexts }

TextLines == {HeaderLine, RowA, RowC, RowShort, RowOdd, RowMadrid, RowQuoted}
LinesUpTo(n) == UNION {[1..k -> TextLines] : k \in 0..n}
ImportTexts ==
    {NoFile} \cup {TextFile(ls) : ls \in LinesUpTo(MaxLines)}
    \cup {TextFile(<<r>>) : r \in NumericRows}

\* no storage step fails
NoFaultPlan(n) == [begin |-> FALSE, commit |-> FALSE, rows |-> [i \in 1..n |-> "none"]]

InitImport == InitStore /\ InitIsbnIdle /\ InitLookupIdle

\* main case 11 on a fresh store: importCsv(path) (main.cpp:759-764)
ImportText ==
    /\ last.op = "init"
    /\ \E file \in ImportTexts :
        LET n == IF file.exists /\ file.lines # <<>> THEN Len(dataLinesOf(file)) ELSE 0
            r == importCsv(Conn(books, seq), file, NoFaultPlan(n))
        IN  /\ books' = r.c.books
            /\ seq' = r.c.seq
            /\ usedIds' = usedIds \cup Ids(r.c.books)
            /\ last' = [op |-> "importCsv", file |-> file, ret |-> r.ret,
                        faulted |-> r.faults # {}, before |-> Tables]
            /\ UNCHANGED <<settings, isbnVars, lookupVars>>

NextImport == ImportText

SpecImport == InitImport /\ [][NextImport]_vars

-----------------------------------------------------------------------------
(* Claims about the import of a file (under SpecImport) *)

\* A file was read: it exists and has a first line
Imported == last.op = "importCsv" /\ last.file.exists /\ last.file.lines # <<>>

\* The first line has the expected header shape
IsHeader(line) == line = HeaderLine
\* The data rows of a file: all lines but a header in the first line
DataRows(file) == IF IsHeader(file.lines[1]) THEN Tail(file.lines) ELSE file.lines
\* The rows among `lines` that parse to at least 7 columns, in file order
ValidLines(lines) == SelectSeq(lines, LAMBDA l : Len(csvParse(l)) >= 7)

\* C12: import header handling.  The first line is skipped if and only if it
\* is the header line; any other first line is the first data row: after the
\* import of a file into an empty store there is one record per data row of
\* 7 columns, in file order, whatever text the fields hold.
C12_HeaderHandling ==
    Imported =>
        LET rows == ValidLines(DataRows(last.file))
        IN  /\ Cardinality(books) = Len(rows)
            /\ \A i \in 1..Len(rows) :
                  \E b \in books : b.id = i /\ b.title = csvParse(rows[i])[2]

\* A column that is a number: blanks, an optional sign, digits and nothing else
IsNumber(s) ==
    LET t == SkipBlanks(s)
        u == IF t # <<>> /\ Head(t) \in {"-", "+"} THEN Tail(t) ELSE t
    IN  u # <<>> /\ \A i \in 1..Len(u) : u[i] \in Digits

\* C13: import clamping.  Every record an import creates has totalPages >= 0,
\* 0 <= currentPage <= totalPages and status in 0..2; a row whose totalPages,
\* currentPage or status column is no number is imported with 0 in that
\* field; new ids follow the position of the row, not its id column.
C13_ImportClamping ==
    last.op = "importCsv" =>
        /\ \A b \in books :
              /\ b.totalPages >= 0
              /\ 0 <= b.currentPage /\ b.currentPage <= b.totalPages
              /\ b.status \in {0, 1, 2}
        /\ Ids(books) = 1..Cardinality(books)
        /\ (/\ last.file.exists /\ Len(last.file.lines) = 1
            /\ Len(csvParse(last.file.lines[1])) >= 7
            /\ ~StrContains(last.file.lines[1], idComma)) =>
              LET cols == csvParse(last.file.lines[1])
              IN  \E b \in books :
                      /\ ~IsNumber(cols[4]) => b.totalPages = 0
                      /\ ~IsNumber(cols[5]) => b.currentPage = 0
                      /\ ~IsNumber(cols[6]) => b.status = 0

-----------------------------------------------------------------------------
(* list, CSV export, and the export/import round trip *)

\* no status filter (std::nullopt)
NoFilter == -1

\* The rows of a result set by descending id
RECURSIVE OrderByIdDesc(_)
OrderByIdDesc(bks) ==
    IF bks = {} THEN <<>>
    ELSE LET first == CHOOSE b \in bks : \A o \in bks : b.id >= o.id
         IN  <<first>> \o OrderByIdDesc(bks \ {first})

\* The rows of a result set under ORDER BY id ASC
RECURSIVE OrderById(_)
OrderById(bks) ==
    IF bks = {} THEN <<>>
    ELSE LET first == CHOOSE b \in bks : \A o \in bks : b.id <= o.id
         IN  <<first>> \o OrderById(bks \ {first})

\* SqliteStorage::list: the rows, of one status if a filter is given, by id;
\* no row when prepare fails or the first step fails
list(bks, statusFilter, fault) ==
    IF fault # "none" THEN <<>>
    ELSE OrderById({b \in bks : statusFilter = NoFilter \/ b.status = statusFilter})

\* csvQuote without the doubling of embedded quotes
csvQuotePlain(s) == <<DQ>> \o s \o <<DQ>>

\* SqliteStorage::csvQuote: the field between quotes, every quote doubled
RECURSIVE csvQuoteFrom(_, _)
csvQuoteFrom(s, i) ==
    IF i > Len(s) THEN <<DQ>>
    ELSE (IF s[i] = DQ THEN <<DQ, DQ>> ELSE <<s[i]>>) \o csvQuoteFrom(s, i + 1)
csvQuote(s) == <<DQ>> \o csvQuoteFrom(s, 1)

\* exportRow with the columns totalPages and currentPage exchanged
exportRowPagesSwapped(b) ==
    IntToStr(b.id) \o <<",">> \o csvQuote(b.title) \o <<",">> \o csvQuote(b.author) \o <<",">>
    \o IntToStr(b.currentPage) \o <<",">> \o IntToStr(b.totalPages) \o <<",">>
    \o IntToStr(b.status) \o <<",">> \o csvQuote(b.isbn)

\* One row of exportCsv (main.cpp:430-436), without its line break
exportRow(b) ==
    IntToStr(b.id) \o <<",">> \o csvQuote(b.title) \o <<",">> \o csvQuote(b.author) \o <<",">>
    \o IntToStr(b.totalPages) \o <<",">> \o IntToStr(b.currentPage) \o <<",">>
    \o IntToStr(b.status) \o <<",">> \o csvQuote(b.isbn)

\* SqliteStorage::exportCsv: [ret, file]; no file when the path cannot be
\* opened for writing.  The fields hold no line break, so every row is a line.
exportCsv(bks, writable) ==
    IF ~writable THEN [ret |-> FALSE, file |-> NoFile]
    ELSE LET rows == list(bks, NoFilter, "none")
         IN  [ret |-> TRUE,
              file |-> TextFile(<<HeaderLine>> \o [i \in 1..Len(rows) |-> exportRow(rows[i])])]

\* main case 10 then case 11 against a fresh books.db: exportCsv(path), then
\* importCsv(path) into an empty store
ExportImport ==
    \E writable \in BOOLEAN :
        LET e == exportCsv(books, writable)
            n == IF e.file.exists THEN Len(dataLinesOf(e.file)) ELSE 0
            r == importCsv(Conn({}, 0), e.file, NoFaultPlan(n))
        IN  /\ last' = [op |-> "roundtrip", exported |-> e.ret, ret |-> r.ret,
                        faulted |-> FALSE, imported |-> r.c.books]
            /\ UNCHANGED <<books, seq, settings, usedIds, isbnVars, lookupVars>>

NextRoundTrip == Add \/ UpdateProgress \/ UpdateStatus \/ Remove \/ ExportImport

SpecRoundTrip == Init /\ [][NextRoundTrip]_vars

-----------------------------------------------------------------------------
(* Claims about the round trip (under SpecRoundTrip) *)

InRange(b) ==
    /\ b.totalPages >= 0
    /\ 0 <= b.currentPage /\ b.currentPage <= b.totalPages
    /\ b.status \in {0, 1, 2}

-----------------------------------------------------------------------------
(* csvQuote and csvParse on rows of text fields *)

\* characters of a field
MaxFieldLen == 2

FieldChars == {"a", ",", DQ}
FieldTexts == UNION {[1..k -> FieldChars] : k \in 0..MaxFieldLen}
\* Rows of 7 fields: three texts t1, t2, t3 laid out as t1,t2,t3,t1,t2,t3,t1,
\* so that every text stands in every column and next to every other text
FieldTriples == [1..3 -> FieldTexts]
fieldRow(t) == [i \in 1..7 |-> t[((i - 1) % 3) + 1]]

\* A row as exportCsv writes its text columns: each field through csvQuote,
\* commas between them (main.cpp:430-436)
quotedRow(fields) == JoinComma([i \in 1..Len(fields) |-> csvQuote(fields[i])])

InitCsv == InitStore /\ InitIsbnIdle /\ InitLookupIdle

\* A row of 7 text fields is written by the export and read back by csvParse
\* (main.cpp:456)
QuoteAndParse ==
    /\ last.op = "init"
    /\ \E t \in FieldTriples :
        LET fields == fieldRow(t)
            line   == quotedRow(fields)
        IN  /\ last' = [op |-> "csvParse", fields |-> fields, line |-> line,
                        cols |-> csvParse(line)]
            /\ UNCHANGED <<books, seq, settings, usedIds, isbnVars, lookupVars>>

NextCsv == QuoteAndParse

SpecCsv == InitCsv /\ [][NextCsv]_vars

-----------------------------------------------------------------------------
(* Claims about CSV quoting (under SpecCsv) *)

\* C16: CSV field quoting round-trips.  For every row of 7 text fields over an
\* alphabet with the comma and the double quote, the exported row parses back
\* with csvParse to exactly 7 columns, each equal to the original field
\* character for character.
C16_QuotingRoundTrips ==
    last.op = "csvParse" =>
        /\ Len(last.cols) = 7
        /\ \A i \in 1..7 : last.cols[i] = last.fields[i]

\* C16 witness: a field made of a comma and a quote, next to a field that
\* ends in a quote, was written and read back
C16_Witness ==
    /\ last.op = "csvParse"
    /\ \E i \in 1..6 : /\ last.fields[i] = <<",", DQ>>
                       /\ last.fields[i + 1] # <<>>
                       /\ last.fields[i + 1][Len(last.fields[i + 1])] = DQ
    /\ last.cols = last.fields

-----------------------------------------------------------------------------
(* Claims about add, get and remove (under Spec) *)

\* C17: add/get/remove.  After a successful add(record) returning id, get(id)
\* is the record with the fields of the input under the returned id; after a
\* successful remove(id), get(id) is absent, and the id of a removed record
\* stays absent through every later operation.
C17_AddGetRemove ==
    [][ /\ (last'.op = "add" /\ ~last'.faulted) =>
              get(books', last'.ret) = {[last'.book EXCEPT !.id = last'.ret]}
        /\ (last'.op = "remove" /\ ~last'.faulted) => get(books', last'.id) = {}
        /\ \A id \in usedIds \ Ids(books) : get(books', id) = {}
      ]_vars

\* C17 witness: after a record was removed, add has stored a record with an
\* isbn; get finds it under the returned id and finds nothing under the
\* removed id
C17_Witness ==
    /\ last.op = "add" /\ ~last.faulted
    /\ \E b \in get(books, last.ret) : b.isbn = Isbn13Sample /\ b.title = last.book.title
    /\ \E id \in usedIds : get(books, id) = {}

-----------------------------------------------------------------------------
(* list and search on a store of titled records *)

\* characters of a search query
MaxQueryLen == 2

\* std::tolower on the characters of the model
ToLower(c) == CASE c = "A" -> "a" [] c = "B" -> "b" [] OTHER -> c
lower(str) == [i \in 1..Len(str) |-> ToLower(str[i])]

\* The LIKE operator of SQLite as the statement of search uses it (no ESCAPE):
\* '%' stands for any run of characters, '_' for any one character, every
\* other character for itself, ASCII letters without regard to case
RECURSIVE likeFrom(_, _, _, _)
likeFrom(pat, i, text, j) ==
    IF i > Len(pat) THEN j > Len(text)
    ELSE IF pat[i] = "%"
         THEN likeFrom(pat, i + 1, text, j) \/ (j <= Len(text) /\ likeFrom(pat, i, text, j + 1))
    ELSE IF j > Len(text) THEN FALSE
    ELSE IF pat[i] = "_" THEN likeFrom(pat, i + 1, text, j + 1)
    ELSE ToLower(pat[i]) = ToLower(text[j]) /\ likeFrom(pat, i + 1, text, j + 1)
like(text, pat) == likeFrom(pat, 1, text, 1)

\* SqliteStorage::search: WHERE lower(title) LIKE ? OR lower(author) LIKE ?
\* with the pattern lower("%" + q + "%"), by id; no row when prepare fails or
\* the first step fails
search(bks, q, fault) ==
    IF fault # "none" THEN <<>>
    ELSE LET patLower == lower(<<"%">> \o q \o <<"%">>)
         IN  OrderById({b \in bks : like(lower(b.title), patLower) \/ like(lower(b.author), patLower)})

QueryChars == {"a", "B", "%", "_"}
Queries == UNION {[1..k -> QueryChars] : k \in 0..MaxQueryLen}

\* Records with letters of both cases, '%' and '_' in title and author
SearchBooks ==
    { Book(<<"a", "B">>, <<>>, 3, 1, 1, <<>>),
      Book(<<"b">>, <<"A", "b">>, 3, 0, 0, <<>>),
      Book(<<"_", "%">>, <<"a">>, 2, 2, 2, <<>>),
      Book(<<"a", "b">>, <<"B", "_", "a">>, 0, 0, 2, <<>>) }

QueryFaults == {"none", "prepare"}
Filters == {NoFilter, 0, 1, 2}

\* addManualFlow: add of a titled record
AddTitled ==
    /\ seq < MaxId
    /\ \E b \in SearchBooks :
        LET r == add(Conn(books, seq), b, "none")
        IN  /\ books' = r.c.books
            /\ seq' = r.c.seq
            /\ usedIds' = usedIds \cup Ids(r.c.books)
            /\ last' = Called("add", "none", r.ret, [book |-> b])
            /\ UNCHANGED <<settings, isbnVars, lookupVars>>

\* searchFlow: the query is lowered, then search runs (main.cpp:650-658)
Search ==
    \E q \in Queries, fault \in QueryFaults :
        /\ last' = [op |-> "search", q |-> q, faulted |-> fault # "none",
                    ret |-> search(books, lower(q), fault)]
        /\ UNCHANGED <<books, seq, settings, usedIds, isbnVars, lookupVars>>

\* listBooks: list() or list(status) (main.cpp:551-556)
List ==
    \E statusFilter \in Filters, fault \in QueryFaults :
        /\ last' = [op |-> "list", filter |-> statusFilter, faulted |-> fault # "none",
                    ret |-> list(books, statusFilter, fault)]
        /\ UNCHANGED <<books, seq, settings, usedIds, isbnVars, lookupVars>>

NextQuery == AddTitled \/ Remove \/ Search \/ List

SpecQuery == Init /\ [][NextQuery]_vars

-----------------------------------------------------------------------------
(* Claims about list and search (under SpecQuery) *)

\* q occurs in text as a literal substring, letters compared without case
ContainsNoCase(text, q) == StrContains(lower(text), lower(q))

RetIds == {last.ret[i].id : i \in 1..Len(last.ret)}

\* C18: search(q) returns exactly the records whose title or author contains
\* q as a literal substring, compared case-insensitively, for queries over
\* letters of both cases, '%' and '_'.
C18_SearchLiteralSubstring ==
    (last.op = "search" /\ ~last.faulted) =>
        /\ \A i \in 1..Len(last.ret) : last.ret[i] \in books
        /\ RetIds = {b.id : b \in {r \in books : ContainsNoCase(r.title, last.q)
                                                \/ ContainsNoCase(r.author, last.q)}}

\* C19: list and search return records in strictly ascending id order with
\* no duplicates; a list() that ran without a filter returns every stored
\* record, a list(status) exactly the stored records of that status.
C19_ListAndSearchOrder ==
    last.op \in {"list", "search"} =>
        /\ \A i \in 1..Len(last.ret) : last.ret[i] \in books
        /\ \A i, j \in 1..Len(last.ret) : i < j => last.ret[i].id < last.ret[j].id
        /\ (last.op = "list" /\ ~last.faulted) =>
              RetIds = {b.id : b \in {r \in books : last.filter = NoFilter
                                                      \/ r.status = last.filter}}

\* C19 witness: a filtered list of a store of two records of one status,
\* whose ids are not 1 and 2 in insertion order alone (a record was removed
\* before), has returned both
C19_Witness ==
    /\ last.op = "list" /\ ~last.faulted /\ last.filter # NoFilter
    /\ Len(last.ret) = 2 /\ last.ret[1].id < last.ret[2].id
    /\ Cardinality(books) = 2

-----------------------------------------------------------------------------
(* daysToFinish on 32-bit int *)

\* largest number of pages and pages per day the prompts accept
MaxPages == 2000000000
\* small page counts, tried exhaustively
MaxSmallPages == 4

\* a + b on int overflows
AddOverflows(a, b) ==
    \/ a > 0 /\ b > INT_MAX - a
    \/ a < 0 /\ b < INT_MIN - a

\* a + b on int where the build wraps around (a + b - 2^32 or a + b + 2^32)
WrapAdd(a, b) ==
    IF a > 0 /\ b > INT_MAX - a THEN ((a - INT_MAX) + (b - INT_MAX)) - 2
    ELSE IF a < 0 /\ b < INT_MIN - a THEN ((a + INT_MAX) + (b + INT_MAX)) + 2
    ELSE a + b

\* a / b on int, b > 0: the quotient is truncated toward zero
TruncDiv(a, b) == IF a >= 0 THEN a \div b ELSE -((-a) \div b)

\* What a build makes of signed overflow: wrap-around, or abort (-ftrapv)
Builds == {"wrap", "trap"}
Trap == [trap |-> TRUE]

\* daysToFinish: (remaining + dailyRate - 1) / dailyRate on int; the sum is
\* undefined when it passes INT_MAX, and the build decides the outcome
daysToFinish(b, dailyRate, build) ==
    IF dailyRate <= 0 \/ b.totalPages <= b.currentPage THEN NullOpt
    ELSE LET remaining == b.totalPages - b.currentPage
             sum       == WrapAdd(remaining, dailyRate)
         IN  IF build = "trap" /\ (AddOverflows(remaining, dailyRate) \/ AddOverflows(sum, -1))
             THEN Trap
             ELSE Some(TruncDiv(WrapAdd(sum, -1), dailyRate))

\* Page counts and daily rates: the small ones and the largest the prompts
\* accept (askInt(..., 0, 2'000'000'000))
EtaValues == (0..MaxSmallPages) \cup {MaxPages \div 2, (INT_MAX - MaxPages) + 1, MaxPages - 1, MaxPages}

InitEta == InitStore /\ InitIsbnIdle /\ InitLookupIdle

\* printRow: the estimate of one record under the stored daily rate
DaysToFinish ==
    /\ last.op = "init"
    /\ \E total \in EtaValues, page \in EtaValues, rate \in EtaValues, build \in Builds :
        /\ last' = [op |-> "daysToFinish", totalPages |-> total, currentPage |-> page,
                    dailyRate |-> rate,
                    ret |-> daysToFinish([totalPages |-> total, currentPage |-> page], rate, build)]
        /\ UNCHANGED <<books, seq, settings, usedIds, isbnVars, lookupVars>>

NextEta == DaysToFinish

SpecEta == InitEta /\ [][NextEta]_vars

-----------------------------------------------------------------------------
(* Claims about daysToFinish (under SpecEta) *)

\* the least n with n * d >= r, for r >= 0 and d > 0
Ceiling(r, d) == (r \div d) + (IF r % d = 0 THEN 0 ELSE 1)

\* C20: daysToFinish is unknown when dailyRate <= 0 or currentPage >=
\* totalPages, and otherwise the ceiling of (totalPages - currentPage) /
\* dailyRate, for all three values in 0..2,000,000,000.
C20_DaysToFinish ==
    last.op = "daysToFinish" =>
        IF last.dailyRate <= 0 \/ last.currentPage >= last.totalPages
        THEN last.ret = NullOpt
        ELSE last.ret = Some(Ceiling(last.totalPages - last.currentPage, last.dailyRate))

-----------------------------------------------------------------------------
(* Claims about the daily-rate setting (under Spec) *)

\* C21: getDailyRate returns 0 while no rate has ever been written and never
\* a negative value; after a successful setDailyRate(r) it returns max(0, r);
\* and every other step (add, update, remove, import, a setDailyRate that
\* failed) leaves what it returns unchanged.
C21_DailyRate ==
    /\ [](/\ getDailyRate(settings) >= 0
          /\ settings = <<>> => getDailyRate(settings) = 0)
    /\ [][IF last'.op = "setDailyRate" /\ ~last'.faulted /\ last'.ret
          THEN getDailyRate(settings') = Max2(0, last'.rate)
          ELSE getDailyRate(settings') = getDailyRate(settings)]_vars

\* C21 witness: a rate of 15 was written, then a record was added, and the
\* rate read is still 15
C21_Witness ==
    /\ last.op = "add" /\ ~last.faulted /\ books # {}
    /\ getDailyRate(settings) = 15

-----------------------------------------------------------------------------
(* The interactive flows of the menu and the import *)

\* strToStatus on the lower-case answers the model types (tolower leaves them)
strToStatus(t) ==
    IF t \in {"to-read", "toread", "todo", "0"} THEN Some(0)
    ELSE IF t \in {"reading", "1"} THEN Some(1)
    ELSE IF t \in {"finished", "done", "2"} THEN Some(2)
    ELSE NullOpt

\* The status the add and update-page flows derive from the page numbers
autoStatus(totalPages, page) ==
    IF totalPages > 0 /\ page >= totalPages THEN 2
    ELSE IF page > 0 THEN 1
    ELSE 0

\* askInt that takes any answer
askIntAnyAnswer(answers, lo, hi) == answers

\* askInt(prompt, lo, hi) returns a number of lo..hi: of the answers typed,
\* the first in range
askInt(answers, lo, hi) == {v \in answers : lo <= v /\ v <= hi}

TotalAnswers == {0, 3}
PageAnswers == {0, 1, 3, 5}
StatusAnswers == {"", "0", "1", "done"}
IsbnAnswers == {Isbn10Sample, <<"1">>}
FlowFaults == {"none", "step"}

\* Lines 562-571 and 603-612: the pages and the status of a new record
newBook(title, isbn, total, page, answer) ==
    LET os == strToStatus(answer)
    IN  Book(title, <<>>, total, page,
             IF os.has THEN os.v ELSE autoStatus(total, page), isbn)

Said(op, text) == [op |-> op, said |-> text]

addManualFlow ==
    /\ seq < MaxId
    /\ \E fault \in FlowFaults, answer \in StatusAnswers :
       \E total \in askInt(TotalAnswers, 0, MaxPages) :
       \E page \in askInt(PageAnswers, 0, Max2(0, total)) :
        LET b == newBook(<<"A">>, normalizeIsbn(<<>>), total, page, answer)
            r == add(Conn(books, seq), b, fault)
        IN  /\ books' = r.c.books
            /\ seq' = r.c.seq
            /\ usedIds' = usedIds \cup Ids(r.c.books)
            /\ last' = Said("addManualFlow", IF r.ret > 0 THEN "Added" ELSE "Add failed.")
            /\ UNCHANGED <<settings, isbnVars, lookupVars>>

\* The title of addIsbnFlow is the one the lookup found or the one typed in;
\* the pages and the status are asked as in addManualFlow.
addIsbnFlow ==
    /\ seq < MaxId
    /\ \E raw \in IsbnAnswers :
        LET isbn13 == normalizeIsbn(raw)
        IN  IF isbn13 = <<>>
            THEN /\ last' = Said("addIsbnFlow", "Invalid ISBN.")
                 /\ UNCHANGED <<books, seq, usedIds, settings, isbnVars, lookupVars>>
            ELSE \E fault \in FlowFaults, answer \in {"", "done"} :
                 \E total \in askInt({3}, 0, MaxPages) :
                 \E page \in askInt({1, 5}, 0, Max2(0, total)) :
                    LET b == newBook(<<"C">>, isbn13, total, page, answer)
                        r == add(Conn(books, seq), b, fault)
                    IN  /\ books' = r.c.books
                        /\ seq' = r.c.seq
                        /\ usedIds' = usedIds \cup Ids(r.c.books)
                        /\ last' = Said("addIsbnFlow",
                                        IF r.ret > 0 THEN "Added" ELSE "Add failed.")
                        /\ UNCHANGED <<settings, isbnVars, lookupVars>>

updatePageFlow ==
    \E id \in askInt(1..MaxId, 1, INT_MAX) :
        LET ob == get(books, id)
        IN  IF ob = {}
            THEN /\ last' = Said("updatePageFlow", "Not found.")
                 /\ UNCHANGED <<books, seq, usedIds, settings, isbnVars, lookupVars>>
            ELSE \E o \in ob, fault \in FlowFaults :
                 \E page \in askInt(PageAnswers, 0, Max2(0, o.totalPages)) :
                    LET r == updateProgress(Conn(books, seq), id, page,
                                            autoStatus(o.totalPages, page), fault)
                    IN  /\ books' = r.c.books
                        /\ seq' = r.c.seq
                        /\ usedIds' = usedIds \cup Ids(r.c.books)
                        /\ last' = Said("updatePageFlow",
                                        IF r.ret THEN "Updated." ELSE "Update failed.")
                        /\ UNCHANGED <<settings, isbnVars, lookupVars>>

markStatusFlow ==
    \E id \in askInt(1..MaxId, 1, INT_MAX) :
        IF get(books, id) = {}
        THEN /\ last' = Said("markStatusFlow", "Not found.")
             /\ UNCHANGED <<books, seq, usedIds, settings, isbnVars, lookupVars>>
        ELSE \E s \in askInt(0..3, 0, 2), fault \in FlowFaults :
                LET r == updateStatus(Conn(books, seq), id, s, fault)
                IN  /\ books' = r.c.books
                    /\ seq' = r.c.seq
                    /\ usedIds' = usedIds \cup Ids(r.c.books)
                    /\ last' = Said("markStatusFlow",
                                    IF r.ret THEN "Status updated." ELSE "Update failed.")
                    /\ UNCHANGED <<settings, isbnVars, lookupVars>>

deleteFlow ==
    \E id \in askInt(1..MaxId, 1, INT_MAX), fault \in FlowFaults :
        LET r == remove(Conn(books, seq), id, fault)
        IN  /\ books' = r.c.books
            /\ seq' = r.c.seq
            /\ usedIds' = usedIds \cup Ids(r.c.books)
            /\ last' = [op |-> "deleteFlow", id |-> id,
                        said |-> IF r.ret THEN "Deleted." ELSE "Not found."]
            /\ UNCHANGED <<settings, isbnVars, lookupVars>>

\* a row that says "finished" on page 1 of 3
RowDone == JoinComma(<<<<"5">>, <<"A">>, <<>>, <<"3">>, <<"1">>, <<"2">>, <<>>>>)
FlowFiles == {NoFile, TextFile(<<HeaderLine, RowOdd>>), TextFile(<<RowDone>>)}

\* main case 11: importCsv(path)
importFlow ==
    \E file \in FlowFiles :
        LET n == IF file.exists /\ file.lines # <<>> THEN Len(dataLinesOf(file)) ELSE 0
            r == importCsv(Conn(books, seq), file, NoFaultPlan(n))
        IN  /\ seq + n <= MaxId
            /\ books' = r.c.books
            /\ seq' = r.c.seq
            /\ usedIds' = usedIds \cup Ids(r.c.books)
            /\ last' = Said("importFlow", IF r.ret THEN "Imported." ELSE "Import failed.")
            /\ UNCHANGED <<settings, isbnVars, lookupVars>>

NextFlows ==
    \/ addManualFlow \/ addIsbnFlow \/ updatePageFlow \/ markStatusFlow
    \/ deleteFlow \/ importFlow

SpecFlows == Init /\ [][NextFlows]_vars

-----------------------------------------------------------------------------
(* Claims about the states the flows reach (under SpecFlows) *)

\* C22: in every state the flows (manual add, ISBN add, update current page,
\* mark status, delete) and the import reach, every stored record has
\* 0 <= currentPage <= totalPages.
C22_PageRange ==
    \A b \in books : 0 <= b.currentPage /\ b.currentPage <= b.totalPages

\* C22 witness: the import has clamped the row with total -4 and page 9, and
\* the update-page flow has put another record on its last page
C22_Witness ==
    /\ \E b \in books : b.isbn = Isbn13Sample /\ b.title = <<"C">> /\ b.totalPages = 0
    /\ last.op = "updatePageFlow" /\ last.said = "Updated."
    /\ \E b \in books : b.totalPages = 3 /\ b.currentPage = 3

\* C23: in every state the flows and the import reach, every record with
\* status Finished has currentPage = totalPages.
C23_FinishedCoupling ==
    \A b \in books : b.status = 2 => b.currentPage = b.totalPages

\* C25: the delete flow says "Deleted." only if a record with the id existed
\* immediately before the call: remove reports failure for an id naming no
\* record.
C25_RemoveAbsentFails ==
    [][(last'.op = "deleteFlow" /\ last'.said = "Deleted.") => last'.id \in Ids(books)]_vars

-----------------------------------------------------------------------------
(* Claims about the frame of the mutations and of the import (under Spec) *)

ImmutableFields(b) == <<b.title, b.author, b.totalPages, b.isbn>>

\* C24: updateProgress(id, p, s), updateStatus(id, s) and remove(id) change
\* nothing except the record with that id; updateProgress stores exactly p
\* and s; when no record has the id the table is unchanged; and no step ever
\* changes title, author, totalPages or isbn of a stored record.
C24_MutationFrame ==
    [][ /\ (last'.op \in {"updateProgress", "updateStatus", "remove"} /\ ~last'.faulted) =>
              /\ {b \in books : b.id # last'.id} = {b \in books' : b.id # last'.id}
              /\ Ids(books') \subseteq Ids(books)
              /\ last'.id \notin Ids(books) => books' = books
              /\ (last'.op = "updateProgress" /\ last'.id \in Ids(books)) =>
                    /\ RowOf(books', last'.id).currentPage = last'.page
                    /\ RowOf(books', last'.id).status = last'.status
        /\ \A b \in books, a \in books' :
              a.id = b.id => ImmutableFields(a) = ImmutableFields(b)
      ]_vars

\* C24 witness: updateProgress has put one of two records on page 5 and the
\* other record is on another page
C24_Witness ==
    /\ last.op = "updateProgress" /\ ~last.faulted
    /\ Cardinality(books) = 2
    /\ \E b \in books : b.id = last.id /\ b.currentPage = 5 /\ b.status = last.status
    /\ \E b \in books : b.id # last.id /\ b.currentPage # 5

\* The created records by ascending id are rows[i1], rows[i2], ... for row
\* numbers i1 < i2 < ...
RECURSIVE InRowOrder(_, _, _)
InRowOrder(created, rows, from) ==
    IF created = <<>> THEN TRUE
    ELSE \E i \in from..Len(rows) :
            /\ Fields(created[1]) = rows[i]
            /\ InRowOrder(Tail(created), rows, i + 1)

\* C26: an importCsv that returned true has left every record that existed
\* before the call unchanged, and the records it created have ids greater
\* than every id that existed before, increasing in the order of their rows
\* in the file.
C26_ImportAppends ==
    (last.op = "importCsv" /\ last.ret) =>
        /\ last.before.books \subseteq books
        /\ \A c \in Created(last.before.books, books), b \in last.before.books : c.id > b.id
        /\ InRowOrder(OrderById(Created(last.before.books, books)), validRows(last.file), 1)

\* C26 witness: an import into a store that held a record has created one
\* more
C26_Witness ==
    /\ last.op = "importCsv" /\ last.ret /\ ~last.faulted
    /\ last.before.books # {}
    /\ Created(last.before.books, books) # {}
=============================================================================
